---- MODULE Spec2Model ----
(***************************************************************************)
(* Model of the Palladin HMR client (src/server/src/hmr/hmr_client.js):    *)
(* the connection lifecycle (connect, open/message/close/error handlers,   *)
(* the reconnect timer), the message dispatch and the update application   *)
(* on the document's stylesheet links and module scripts.                  *)
(***************************************************************************)
EXTENDS Integers, Sequences, FiniteSets, TLC

\* ------------------------------------------------------------------ bounds
\* Number of transports (WebSocket objects) created in one run.  connect() is
\* disabled at the bound, and a transport closes only while another can still be
\* created, so that no run ends disconnected for want of room.
MaxSockets == 3
\* Length up to which every update batch is enumerated.
MaxBatch == 1
\* Values Date.now() can return (1..MaxTime); the documents start with t absent or 0.
MaxTime == 1

VARIABLES
    sockets,            \* readyState of every WebSocket created so far, by creation order
    socket,             \* `let socket`: the WebSocket most recently created by connect()
    reconnectTimer,     \* `let reconnectTimer`: 0 models undefined/null, n > 0 a timer id
    isReconnecting,     \* `let isReconnecting`
    isFirstConnection,  \* `let isFirstConnection`
    timers,             \* ids of the timeouts that are scheduled and neither fired nor cleared
    timerCount,         \* number of setTimeout calls so far (the last id handed out)
    handle,             \* window.__PALLADIN_HMR__ : the object published at line 153
    links,              \* the document's link[rel="stylesheet"] elements, in document order
    scripts,            \* the document's script elements, in document order
    serverUp,           \* whether the dev server currently accepts connection attempts
    connectedSeen,      \* history: a 'connected' message has been handled in this page lifetime
    last                \* history: the event handled last and what its handler did

vars == <<sockets, socket, reconnectTimer, isReconnecting, isFirstConnection,
          timers, timerCount, handle, links, scripts, serverUp, connectedSeen, last>>

conn == <<sockets, socket, reconnectTimer, isReconnecting, timers, timerCount>>
dom  == <<links, scripts>>

\* ------------------------------------------------------------ strings
\* Strings the code inspects character by character are sequences of characters.
EndsWith(str, suffix) ==
    /\ Len(str) >= Len(suffix)
    /\ SubSeq(str, Len(str) - Len(suffix) + 1, Len(str)) = suffix

Includes(str, part) ==
    \E i \in 1..(Len(str) + 1) :
        /\ i + Len(part) - 1 <= Len(str)
        /\ SubSeq(str, i, i + Len(part) - 1) = part

DotJs   == <<".", "j", "s">>
DotJsx  == <<".", "j", "s", "x">>
DotTs   == <<".", "t", "s">>
DotTsx  == <<".", "t", "s", "x">>
DotCss  == <<".", "c", "s", "s">>
DotHtml == <<".", "h", "t", "m", "l">>
HmrMark == <<"_", "_", "h", "m", "r">>

\* The characters of every path string of the model (TLC strings are atomic).
PathAppCss == "/a.css"
PathMainTsx == "/m.tsx"
PathLibJs == "/l.js"
PathHmrJs == "/__hmr.js"
PathOldJs == "/o.js"
PathThemeCss == "/t.css"
PathIndexHtml == "/i.html"
PathLogoPng == "/x.png"
PathUtilTs == "/u.ts"
PathViewJsx == "/v.jsx"
Chars ==
    (PathAppCss :> <<"/", "a", ".", "c", "s", "s">>) @@
    (PathMainTsx :> <<"/", "m", ".", "t", "s", "x">>) @@
    (PathLibJs :> <<"/", "l", ".", "j", "s">>) @@
    (PathHmrJs :> <<"/", "_", "_", "h", "m", "r", ".", "j", "s">>) @@
    (PathOldJs :> <<"/", "o", ".", "j", "s">>) @@
    (PathThemeCss :> <<"/", "t", ".", "c", "s", "s">>) @@
    (PathIndexHtml :> <<"/", "i", ".", "h", "t", "m", "l">>) @@
    (PathLogoPng :> <<"/", "x", ".", "p", "n", "g">>) @@
    (PathUtilTs :> <<"/", "u", ".", "t", "s">>) @@
    (PathViewJsx :> <<"/", "v", ".", "j", "s", "x">>)

\* ------------------------------------------------------------ URLs and the DOM
\* A URL is its pathname and its query, an ordered list of name/value pairs.
Url(pathname, query) == [pathname |-> pathname, query |-> query]
NoUrl == Url("", <<>>)
Param(k, v) == [k |-> k, v |-> v]

RECURSIVE SetFrom(_, _, _, _)
SetFrom(query, k, v, found) ==
    IF query = <<>>
    THEN IF found THEN <<>> ELSE <<Param(k, v)>>
    ELSE IF Head(query).k = k
         THEN IF found
              THEN SetFrom(Tail(query), k, v, TRUE)
              ELSE <<Param(k, v)>> \o SetFrom(Tail(query), k, v, TRUE)
         ELSE <<Head(query)>> \o SetFrom(Tail(query), k, v, found)

\* Variant that behaves like url.searchParams.append(k, v).
SearchParamsAppend(url, k, v) == Url(url.pathname, Append(url.query, Param(k, v)))

\* url.searchParams.set(k, v): the first pair named k takes the value, every
\* other pair named k is deleted; when none exists the pair is appended.
SearchParamsSet(url, k, v) == Url(url.pathname, SetFrom(url.query, k, v, FALSE))

Times == 1..MaxTime

Link(hasHref, url) == [hasHref |-> hasHref, url |-> url]
Script(module, hasSrc, url) == [module |-> module, hasSrc |-> hasSrc, url |-> url]


\* Documents the client is loaded into; every href and src in them is a parsable URL.  The client's own script is a module
\* script whose URL contains the HMR endpoint's path segment.
HmrClientScript == Script(TRUE, TRUE, Url(PathHmrJs, <<>>))

DomApp ==
    [links   |-> << Link(TRUE, Url(PathAppCss, <<>>)),
                    Link(TRUE, Url(PathThemeCss, <<Param("t", 0), Param("t", 0)>>)),
                    Link(FALSE, NoUrl) >>,
     scripts |-> << HmrClientScript,
                    Script(TRUE, TRUE, Url(PathMainTsx, <<>>)),
                    Script(FALSE, TRUE, Url(PathOldJs, <<>>)),
                    Script(TRUE, TRUE, Url(PathLibJs, <<Param("v", 1)>>)) >>]

DomBare ==
    [links   |-> << Link(TRUE, Url(PathAppCss, <<Param("v", 1)>>)) >>,
     scripts |-> << HmrClientScript,
                    Script(TRUE, FALSE, NoUrl) >>]

InitDoms == {DomApp, DomBare}

\* ------------------------------------------------------------ frames
\* The text of one inbound frame, by what JSON.parse makes of it.
NoType == "<undefined>"
Entry(hasPath, path) == [hasPath |-> hasPath, path |-> path]
NoPathEntry == Entry(FALSE, "")
Updates(present, items) == [present |-> present, items |-> items]
NoUpdates == Updates(FALSE, <<>>)
Frame(json, type, updates) == [json |-> json, type |-> type, updates |-> updates]


Paths == {PathAppCss, PathMainTsx, PathLibJs, PathUtilTs, PathViewJsx,
          PathIndexHtml, PathLogoPng}

Entries == {Entry(TRUE, p) : p \in Paths} \cup {NoPathEntry}

\* Longer batches that mix the categories
MixedBatches ==
    {<<Entry(TRUE, PathAppCss), Entry(TRUE, PathLogoPng)>>,
     <<Entry(TRUE, PathLogoPng), Entry(TRUE, PathLogoPng)>>,
     <<Entry(TRUE, PathAppCss), Entry(TRUE, PathMainTsx)>>,
     <<Entry(TRUE, PathIndexHtml), Entry(TRUE, PathAppCss)>>,
     <<Entry(TRUE, PathAppCss), Entry(TRUE, PathThemeCss)>>,
     <<Entry(TRUE, PathMainTsx), Entry(TRUE, PathAppCss), Entry(TRUE, PathIndexHtml),
       NoPathEntry>>}

Batches == UNION {[1..n -> Entries] : n \in 0..MaxBatch} \cup MixedBatches

\* Frames without an update batch
ControlFrames ==
    {Frame("invalid", NoType, NoUpdates),      \* text that is not JSON
     Frame("null", NoType, NoUpdates),         \* the JSON value null
     Frame("number", NoType, NoUpdates)}       \* a JSON number: it has no type property
    \cup {Frame("object", t, NoUpdates) :
            t \in {"connected", "full-reload", "ping", NoType, "update"}}

UpdateFrames == {Frame("object", "update", Updates(TRUE, b)) : b \in Batches}

Frames == ControlFrames \cup UpdateFrames

\* ------------------------------------------------------------ UpdateApplier
\* What one call of a handler did to the page: the resulting elements, whether
\* window.location.reload() was called, whether an exception left the handler,
\* how often reloadCSS ran, how many script elements were removed and appended,
\* and log: the page-changing calls in the order they were made.
Effect(lnk, scr, reload, threw, cssCalls, removed, added) ==
    [links |-> lnk, scripts |-> scr, reload |-> reload, threw |-> threw,
     cssCalls |-> cssCalls, removed |-> removed, added |-> added,
     log |-> IF reload THEN <<"reload">> ELSE <<>>]

NoEffect(lnk, scr) == Effect(lnk, scr, FALSE, FALSE, 0, 0, 0)
Throw(lnk, scr, cssCalls) == Effect(lnk, scr, FALSE, TRUE, cssCalls, 0, 0)

\* updates.some(update => update.path.endsWith(s1) || ...): scans in order, stops
\* at the first match, and throws on the first entry before it without a string path.
RECURSIVE SomeEndsWith(_, _, _)
SomeEndsWith(items, i, suffixes) ==
    IF i > Len(items) THEN "false"
    ELSE IF ~items[i].hasPath THEN "throw"
    ELSE IF \E sfx \in suffixes : EndsWith(Chars[items[i].path], sfx) THEN "true"
    ELSE SomeEndsWith(items, i + 1, suffixes)

\* Variant of hasJsChanges that knows only the plain .js and .ts suffixes.
hasPlainJsChanges(items) == SomeEndsWith(items, 1, {DotJs, DotTs})

hasJsChanges(items)   == SomeEndsWith(items, 1, {DotJs, DotJsx, DotTs, DotTsx})
hasCssChanges(items)  == SomeEndsWith(items, 1, {DotCss})
\* Variant of hasHtmlChanges that also counts every entry of no recognized category.
RECURSIVE SomeHtmlOrUnknown(_, _)
SomeHtmlOrUnknown(items, i) ==
    IF i > Len(items) THEN "false"
    ELSE IF ~items[i].hasPath THEN "throw"
    ELSE IF \/ EndsWith(Chars[items[i].path], DotHtml)
            \/ ~\E sfx \in {DotJs, DotJsx, DotTs, DotTsx, DotCss} :
                    EndsWith(Chars[items[i].path], sfx)
         THEN "true"
    ELSE SomeHtmlOrUnknown(items, i + 1)

hasHtmlOrUnknownChanges(items) == SomeHtmlOrUnknown(items, 1)

hasHtmlChanges(items) == SomeEndsWith(items, 1, {DotHtml})

\* Variant of reloadCSS that refreshes only the links whose URL is the changed path.
reloadCSSByPath(path, lnk, stamp) ==
    [i \in 1..Len(lnk) |->
        IF lnk[i].hasHref /\ lnk[i].url.pathname = path
        THEN Link(TRUE, SearchParamsSet(lnk[i].url, "t", stamp))
        ELSE lnk[i]]

\* reloadCSS(path): every stylesheet link with an href gets t = Date.now();
\* the path argument is not consulted.  stamp is what Date.now() returns in this pass.
reloadCSS(path, lnk, stamp) ==
    [i \in 1..Len(lnk) |->
        IF lnk[i].hasHref
        THEN Link(TRUE, SearchParamsSet(lnk[i].url, "t", stamp))
        ELSE lnk[i]]

\* Variant of the selection that takes every module script with a src.
ReloadableAnySrc(script) ==
    /\ script.module
    /\ script.hasSrc

\* script[type="module"] with a src that does not contain '__hmr'
Reloadable(script) ==
    /\ script.module
    /\ script.hasSrc
    /\ ~Includes(Chars[script.url.pathname], HmrMark)

RECURSIVE Recreated(_, _, _)
Recreated(scr, stamp, i) ==
    IF i > Len(scr) THEN <<>>
    ELSE (IF Reloadable(scr[i])
          THEN <<Script(TRUE, TRUE, SearchParamsSet(scr[i].url, "t", stamp))>>
          ELSE <<>>) \o Recreated(scr, stamp, i + 1)

NotReloadable(script) == ~Reloadable(script)

\* reloadJavaScript(): full reload when no module script qualifies, otherwise the
\* qualifying ones are removed and recreated at the end of the document.  before is
\* what the handler has done so far.
reloadJavaScript(before, stamp) ==
    LET scriptUrls == Recreated(before.scripts, stamp, 1) IN
    IF Len(scriptUrls) = 0
    THEN [before EXCEPT !.reload = TRUE, !.log = Append(@, "reload")]
    ELSE [before EXCEPT !.scripts = SelectSeq(@, NotReloadable) \o scriptUrls,
                        !.removed = Len(scriptUrls),
                        !.added = Len(scriptUrls),
                        !.log = Append(@, "scripts")]

\* The forEach of lines 87-92: entries before the first one without a string path.
RECURSIVE GoodPrefix(_, _)
GoodPrefix(items, i) ==
    IF i > Len(items) \/ ~items[i].hasPath THEN 0 ELSE 1 + GoodPrefix(items, i + 1)

CssEntry(e) == e.hasPath /\ EndsWith(Chars[e.path], DotCss)

\* updates.forEach(update => { if (update.path.endsWith('.css')) reloadCSS(update.path) })
\* over the first n entries.
RECURSIVE ForEachCss(_, _, _, _, _)
ForEachCss(items, i, n, before, stamp) ==
    IF i > n THEN before
    ELSE ForEachCss(items, i + 1, n,
                    IF CssEntry(items[i])
                    THEN [before EXCEPT !.links = reloadCSS(items[i].path, @, stamp),
                                        !.cssCalls = @ + 1,
                                        !.log = Append(@, "css")]
                    ELSE before,
                    stamp)

\* Variant of lines 86-98 that applies the strongest remedy alone.
applyUpdateStrongestOnly(items, js, css, html, lnk, scr, stampL, stampS) ==
    IF js = "throw" \/ css = "throw" \/ html = "throw" THEN Throw(lnk, scr, 0)
    ELSE IF js = "true" \/ html = "true"
    THEN reloadJavaScript(NoEffect(lnk, scr), stampS)
    ELSE LET n        == GoodPrefix(items, 1)
             afterCss == IF css = "true"
                         THEN ForEachCss(items, 1, n, NoEffect(lnk, scr), stampL)
                         ELSE NoEffect(lnk, scr)
         IN  IF css = "true" /\ n < Len(items) THEN [afterCss EXCEPT !.threw = TRUE]
             ELSE afterCss

\* Lines 86-98, once hasJsChanges, hasCssChanges and hasHtmlChanges are known.
applyUpdate(items, js, css, html, lnk, scr, stampL, stampS) ==
    IF js = "throw" \/ css = "throw" \/ html = "throw" THEN Throw(lnk, scr, 0)
    ELSE LET n        == GoodPrefix(items, 1)
             afterCss == IF css = "true"
                         THEN ForEachCss(items, 1, n, NoEffect(lnk, scr), stampL)
                         ELSE NoEffect(lnk, scr)
         IN  IF css = "true" /\ n < Len(items) THEN [afterCss EXCEPT !.threw = TRUE]
             ELSE IF js = "true" \/ html = "true"
                  THEN reloadJavaScript(afterCss, stampS)
                  ELSE afterCss

handleUpdate(updates, lnk, scr, stampL, stampS) ==
    IF ~updates.present THEN Throw(lnk, scr, 0)      \* undefined.some
    ELSE applyUpdate(updates.items, hasJsChanges(updates.items),
                     hasCssChanges(updates.items), hasHtmlChanges(updates.items),
                     lnk, scr, stampL, stampS)

\* ------------------------------------------------------------ MessageRouter
Outcome(first, eff) == [isFirstConnection |-> first, eff |-> eff]

\* Variant of handleMessage whose default case treats an unknown type as a handshake.
handleMessageLenient(message, first, lnk, scr, stampL, stampS) ==
    IF message.json = "null" THEN Outcome(first, Throw(lnk, scr, 0))
    ELSE IF message.type = "update"
    THEN Outcome(first, handleUpdate(message.updates, lnk, scr, stampL, stampS))
    ELSE IF message.type = "full-reload"
    THEN Outcome(first, Effect(lnk, scr, TRUE, FALSE, 0, 0, 0))
    ELSE IF first
         THEN Outcome(FALSE, NoEffect(lnk, scr))
         ELSE Outcome(first, Effect(lnk, scr, TRUE, FALSE, 0, 0, 0))

\* Variant of handleMessage whose 'connected' case never reloads.
handleMessageNeverStale(message, first, lnk, scr, stampL, stampS) ==
    IF message.json = "null" THEN Outcome(first, Throw(lnk, scr, 0))
    ELSE IF message.type = "connected"
    THEN Outcome(FALSE, NoEffect(lnk, scr))
    ELSE IF message.type = "update"
    THEN Outcome(first, handleUpdate(message.updates, lnk, scr, stampL, stampS))
    ELSE IF message.type = "full-reload"
    THEN Outcome(first, Effect(lnk, scr, TRUE, FALSE, 0, 0, 0))
    ELSE Outcome(first, NoEffect(lnk, scr))

handleMessage(message, first, lnk, scr, stampL, stampS) ==
    IF message.json = "null" THEN Outcome(first, Throw(lnk, scr, 0))   \* null.type
    ELSE IF message.type = "connected"
    THEN IF first
         THEN Outcome(FALSE, NoEffect(lnk, scr))
         ELSE Outcome(first, Effect(lnk, scr, TRUE, FALSE, 0, 0, 0))
    ELSE IF message.type = "update"
    THEN Outcome(first, handleUpdate(message.updates, lnk, scr, stampL, stampS))
    ELSE IF message.type = "full-reload"
    THEN Outcome(first, Effect(lnk, scr, TRUE, FALSE, 0, 0, 0))
    ELSE Outcome(first, NoEffect(lnk, scr))

\* Variant of the message listener that answers a parse failure with a page reload.
onMessageFrameReloading(frame, first, lnk, scr, stampL, stampS) ==
    IF frame.json = "invalid"
    THEN Outcome(first, Effect(lnk, scr, TRUE, TRUE, 0, 0, 0))
    ELSE handleMessage(frame, first, lnk, scr, stampL, stampS)

\* The message listener: JSON.parse, then handleMessage, inside try/catch.
onMessageFrame(frame, first, lnk, scr, stampL, stampS) ==
    IF frame.json = "invalid"
    THEN Outcome(first, Throw(lnk, scr, 0))
    ELSE handleMessage(frame, first, lnk, scr, stampL, stampS)

\* ------------------------------------------------------------ ConnectionManager
NoFrame == Frame("none", NoType, NoUpdates)

Last(op, sock, frame, eff, flag) ==
    [op |-> op, sock |-> sock, frame |-> frame,
     reload |-> eff.reload, threw |-> eff.threw, cssCalls |-> eff.cssCalls,
     removed |-> eff.removed, added |-> eff.added, log |-> eff.log,
     wasReconnecting |-> flag, hadTimer |-> (timers # {})]

Quiet(op, sock) == Last(op, sock, NoFrame, NoEffect(<<>>, <<>>), isReconnecting)

Live(s) == sockets[s] \in {"connecting", "open"}

\* connect(): socket = new WebSocket(socketUrl), with its four listeners
connect ==
    /\ Len(sockets) < MaxSockets
    /\ sockets' = Append(sockets, "connecting")
    /\ socket' = Len(sockets) + 1

Init ==
    /\ sockets = <<"connecting">>
    /\ socket = 1
    /\ reconnectTimer = 0
    /\ isReconnecting = FALSE
    /\ isFirstConnection = TRUE
    /\ timers = {}
    /\ timerCount = 0
    /\ handle = [socket |-> 1]
    /\ \E d \in InitDoms : links = d.links /\ scripts = d.scripts
    /\ serverUp \in BOOLEAN
    /\ connectedSeen = FALSE
    /\ last = Last("load", 1, NoFrame, NoEffect(<<>>, <<>>), FALSE)

\* window.__PALLADIN_HMR__.reconnect(), called by the host page
Reconnect ==
    /\ connect
    /\ last' = Quiet("reconnect", Len(sockets) + 1)
    /\ UNCHANGED <<reconnectTimer, isReconnecting, isFirstConnection, timers, timerCount,
                   handle, links, scripts, serverUp, connectedSeen>>

\* Variant of the open listener that cancels the timeout and keeps the flag.
OnOpenKeepsFlag(s) ==
    /\ sockets[s] = "connecting"
    /\ serverUp
    /\ sockets' = [sockets EXCEPT ![s] = "open"]
    /\ IF reconnectTimer # 0
       THEN /\ timers' = timers \ {reconnectTimer}
            /\ reconnectTimer' = 0
       ELSE UNCHANGED <<timers, reconnectTimer>>
    /\ last' = Quiet("open", s)
    /\ UNCHANGED <<socket, isReconnecting, isFirstConnection, timerCount, handle,
                   links, scripts, serverUp, connectedSeen>>

\* Variant of the open listener that leaves the scheduled timeout alone.
OnOpenKeepsTimer(s) ==
    /\ sockets[s] = "connecting"
    /\ serverUp
    /\ sockets' = [sockets EXCEPT ![s] = "open"]
    /\ isReconnecting' = FALSE
    /\ last' = Quiet("open", s)
    /\ UNCHANGED <<socket, reconnectTimer, timers, isFirstConnection, timerCount, handle,
                   links, scripts, serverUp, connectedSeen>>

\* 'open' listener of transport s
OnOpen(s) ==
    /\ sockets[s] = "connecting"
    /\ serverUp
    /\ sockets' = [sockets EXCEPT ![s] = "open"]
    /\ isReconnecting' = FALSE
    /\ IF reconnectTimer # 0
       THEN /\ timers' = timers \ {reconnectTimer}
            /\ reconnectTimer' = 0
       ELSE UNCHANGED <<timers, reconnectTimer>>
    /\ last' = Quiet("open", s)
    /\ UNCHANGED <<socket, isFirstConnection, timerCount, handle, links, scripts,
                   serverUp, connectedSeen>>

\* Variant of the message listener that takes any decoded message as proof of a
\* working connection and clears the reconnect state.
OnMessageClearsReconnect(s, frame, stampL, stampS) ==
    /\ sockets[s] = "open"
    /\ \E out \in {onMessageFrame(frame, isFirstConnection, links, scripts, stampL, stampS)} :
        /\ isFirstConnection' = out.isFirstConnection
        /\ links' = out.eff.links
        /\ scripts' = out.eff.scripts
        /\ last' = Last("message", s, frame, out.eff, isReconnecting)
        /\ IF out.eff.threw
           THEN UNCHANGED <<isReconnecting, reconnectTimer, timers>>
           ELSE /\ isReconnecting' = FALSE
                /\ reconnectTimer' = 0
                /\ timers' = timers \ {reconnectTimer}
    /\ connectedSeen' = (connectedSeen \/ (frame.json = "object" /\ frame.type = "connected"))
    /\ UNCHANGED <<sockets, socket, timerCount, handle, serverUp>>

\* 'message' listener of transport s, for one frame
OnMessage(s, frame, stampL, stampS) ==
    /\ sockets[s] = "open"
    /\ \E out \in {onMessageFrame(frame, isFirstConnection, links, scripts, stampL, stampS)} :
        /\ isFirstConnection' = out.isFirstConnection
        /\ links' = out.eff.links
        /\ scripts' = out.eff.scripts
        /\ last' = Last("message", s, frame, out.eff, isReconnecting)
    /\ connectedSeen' = (connectedSeen \/ (frame.json = "object" /\ frame.type = "connected"))
    /\ UNCHANGED <<sockets, socket, reconnectTimer, isReconnecting, timers, timerCount,
                   handle, serverUp>>

\* Variant of the close listener that restarts the timer on every close.
OnCloseRestarts(s) ==
    /\ Live(s)
    /\ sockets[s] = "connecting" => ~serverUp
    /\ Len(sockets) < MaxSockets
    /\ sockets' = [sockets EXCEPT ![s] = "closed"]
    /\ isReconnecting' = TRUE
    /\ timerCount' = timerCount + 1
    /\ reconnectTimer' = timerCount + 1
    /\ timers' = (timers \ {reconnectTimer}) \cup {timerCount + 1}
    /\ last' = Quiet("close", s)
    /\ UNCHANGED <<socket, isFirstConnection, handle, links, scripts, serverUp, connectedSeen>>

\* 'close' listener of transport s.  A transport that never opened closes only
\* when the server refuses it; an open one can be dropped at any time.
OnClose(s) ==
    /\ Live(s)
    /\ sockets[s] = "connecting" => ~serverUp
    /\ Len(sockets) < MaxSockets
    /\ sockets' = [sockets EXCEPT ![s] = "closed"]
    /\ IF ~isReconnecting
       THEN /\ isReconnecting' = TRUE
            /\ timerCount' = timerCount + 1
            /\ reconnectTimer' = timerCount + 1
            /\ timers' = timers \cup {timerCount + 1}
       ELSE UNCHANGED <<isReconnecting, timerCount, reconnectTimer, timers>>
    /\ last' = Quiet("close", s)
    /\ UNCHANGED <<socket, isFirstConnection, handle, links, scripts, serverUp, connectedSeen>>

\* Variant of the error listener that starts the reconnect path itself.
OnErrorReconnects(s) ==
    /\ Live(s)
    /\ IF ~isReconnecting
       THEN /\ isReconnecting' = TRUE
            /\ timerCount' = timerCount + 1
            /\ reconnectTimer' = timerCount + 1
            /\ timers' = timers \cup {timerCount + 1}
       ELSE UNCHANGED <<isReconnecting, timerCount, reconnectTimer, timers>>
    /\ last' = Quiet("error", s)
    /\ UNCHANGED <<sockets, socket, isFirstConnection, handle, links, scripts, serverUp,
                   connectedSeen>>

\* 'error' listener of transport s
OnError(s) ==
    /\ Live(s)
    /\ last' = Quiet("error", s)
    /\ UNCHANGED <<sockets, socket, reconnectTimer, isReconnecting, isFirstConnection,
                   timers, timerCount, handle, links, scripts, serverUp, connectedSeen>>

\* Variant of the callback for a timer made with setInterval: it stays scheduled.
TimerFireRepeats(id) ==
    /\ id \in timers
    /\ connect
    /\ last' = Quiet("timer", Len(sockets) + 1)
    /\ UNCHANGED <<reconnectTimer, isReconnecting, isFirstConnection, timers, timerCount,
                   handle, links, scripts, serverUp, connectedSeen>>

\* The callback of timeout id, 1000 ms after it was scheduled
TimerFire(id) ==
    /\ id \in timers
    /\ timers' = timers \ {id}
    /\ connect
    /\ last' = Quiet("timer", Len(sockets) + 1)
    /\ UNCHANGED <<reconnectTimer, isReconnecting, isFirstConnection, timerCount,
                   handle, links, scripts, serverUp, connectedSeen>>

\* The dev server goes down or comes back
ServerToggle ==
    /\ serverUp' = ~serverUp
    /\ last' = Quiet("server", 0)
    /\ UNCHANGED <<sockets, socket, reconnectTimer, isReconnecting, isFirstConnection,
                   timers, timerCount, handle, links, scripts, connectedSeen>>

Sockets == 1..Len(sockets)

Receive(F) ==
    \E s \in Sockets : \E frame \in F : \E stampL \in Times : \E stampS \in Times :
        OnMessage(s, frame, stampL, stampS)

\* The connection lifecycle, with the frames that carry no update batch
Next ==
    \/ Reconnect
    \/ \E s \in Sockets : OnOpen(s)
    \/ Receive(ControlFrames)
    \/ \E s \in Sockets : OnClose(s)
    \/ \E s \in Sockets : OnError(s)
    \/ \E id \in timers : TimerFire(id)
    \/ ServerToggle

Spec == Init /\ [][Next]_vars

\* The update path: the transport opens and frames of every kind arrive
NextUpdate ==
    \/ \E s \in Sockets : OnOpen(s)
    \/ Receive(Frames)

UpdateSpec == Init /\ [][NextUpdate]_vars

\* The connection lifecycle when the host page never calls reconnect()
NextAuto ==
    \/ \E s \in Sockets : OnOpen(s)
    \/ Receive(ControlFrames)
    \/ \E s \in Sockets : OnClose(s)
    \/ \E s \in Sockets : OnError(s)
    \/ \E id \in timers : TimerFire(id)
    \/ ServerToggle

AutoSpec == Init /\ [][NextAuto]_vars

\* The connection lifecycle together with the update batches of MixedBatches, on
\* the page without reloadable module scripts and with the server's availability
\* fixed for the run.
MixedFrames == {Frame("object", "update", Updates(TRUE, b)) : b \in MixedBatches}

InitBare == Init /\ scripts = DomBare.scripts

NextMixed ==
    \/ Reconnect
    \/ \E s \in Sockets : OnOpen(s)
    \/ Receive(ControlFrames \cup MixedFrames)
    \/ \E s \in Sockets : OnClose(s)
    \/ \E s \in Sockets : OnError(s)
    \/ \E id \in timers : TimerFire(id)

MixedSpec == InitBare /\ [][NextMixed]_vars

\* Timer callbacks run once due, and a transport the server accepts opens.
FairSpec ==
    /\ Spec
    /\ WF_vars(\E id \in timers : TimerFire(id))
    /\ WF_vars(\E s \in Sockets : OnOpen(s))

TypeOK ==
    /\ socket \in Sockets
    /\ reconnectTimer \in 0..timerCount
    /\ timers \subseteq 1..timerCount
    /\ isReconnecting \in BOOLEAN
    /\ isFirstConnection \in BOOLEAN

\* ====================================================================== claims
AnyOpen == \E s \in Sockets : sockets[s] = "open"
AnyClosed == \E s \in Sockets : sockets[s] = "closed"
ConnectedFrame == Frame("object", "connected", NoUpdates)
Handled(frame) == last.op = "message" /\ last.frame = frame

\* C1: whatever open/close/error/message events, timer firings and manual
\* reconnect() calls happen, at most one reconnect timer is pending at any time.
C1_AtMostOneTimer == Cardinality(timers) <= 1

\* C1 witness: a close scheduled a second (or later) timer, and it is the only one pending.
C1_Witness ==
    /\ last.op = "close"
    /\ ~last.wasReconnecting
    /\ timerCount >= 2
    /\ Cardinality(timers) = 1

\* C2: the first 'connected' message handled in a page lifetime causes no reload
\* and clears the first-connection flag; every later one, on whichever transport,
\* reloads the page.
C2_ConnectedTwice ==
    [][(last'.op = "message" /\ last'.frame = ConnectedFrame)
         => IF connectedSeen
            THEN last'.reload
            ELSE ~last'.reload /\ isFirstConnection /\ ~isFirstConnection']_vars

\* C2 witness: a later 'connected' message, arriving on a transport made by a
\* reconnect, reloaded the page.
C2_Witness ==
    /\ Handled(ConnectedFrame)
    /\ last.reload
    /\ last.sock > 1
    /\ ~isFirstConnection

\* C3: automatic recovery is live: once a transport has closed and the server
\* accepts every attempt from some point on, some transport is eventually open
\* again, with no manual reconnect() needed.
C3_AutoRecovery == (<>[]serverUp) => (AnyClosed ~> AnyOpen)

\* The categories of the paths, as the wire format names them
StylePaths  == {PathAppCss, PathThemeCss}
ScriptPaths == {PathMainTsx, PathLibJs, PathUtilTs, PathViewJsx}
MarkupPaths == {PathIndexHtml}
OtherPaths  == {PathLogoPng}

BatchFrame(frame) ==
    /\ frame.json = "object"
    /\ frame.type = "update"
    /\ frame.updates.present
WellFormedBatch(frame) ==
    /\ BatchFrame(frame)
    /\ \A i \in 1..Len(frame.updates.items) : frame.updates.items[i].hasPath
HasEntryIn(frame, paths) ==
    \E i \in 1..Len(frame.updates.items) : frame.updates.items[i].path \in paths
AllEntriesIn(frame, paths) ==
    \A i \in 1..Len(frame.updates.items) : frame.updates.items[i].path \in paths
\* Module scripts with a src other than the HMR client's own
OwnScripts(scr) ==
    {i \in 1..Len(scr) : scr[i].module /\ scr[i].hasSrc /\ scr[i].url.pathname # PathHmrJs}
BatchOf(items) == Frame("object", "update", Updates(TRUE, items))
HasT(url) == \E i \in 1..Len(url.query) : url.query[i].k = "t"

C5_ScriptOrMarkup ==
    [][(/\ last'.op = "message"
        /\ WellFormedBatch(last'.frame)
        /\ HasEntryIn(last'.frame, ScriptPaths \cup MarkupPaths))
         => IF OwnScripts(scripts) # {}
            THEN /\ last'.removed = Cardinality(OwnScripts(scripts))
                 /\ last'.added = last'.removed
                 /\ ~last'.reload
            ELSE /\ last'.reload
                 /\ last'.removed = 0
                 /\ last'.added = 0
                 /\ scripts' = scripts]_vars

\* C5 witness: a .tsx batch removed and recreated the two module scripts of the page.
C5_Witness ==
    /\ Handled(BatchOf(<<Entry(TRUE, PathMainTsx)>>))
    /\ last.removed = 2
    /\ last.added = 2
    /\ ~last.reload

\* C6: a non-empty batch of stylesheet paths only refreshes every stylesheet link
\* that has an href, whether or not it matches a changed path, and neither touches
\* a script element nor reloads the page.
C6_StyleOnly ==
    [][(/\ last'.op = "message"
        /\ WellFormedBatch(last'.frame)
        /\ Len(last'.frame.updates.items) > 0
        /\ AllEntriesIn(last'.frame, StylePaths))
         => /\ \A i \in 1..Len(links) :
                 links[i].hasHref =>
                    /\ HasT(links'[i].url)
                    /\ \A j \in 1..Len(links'[i].url.query) :
                         links'[i].url.query[j].k = "t" => links'[i].url.query[j].v \in Times
            /\ last'.cssCalls = Len(last'.frame.updates.items)
            /\ scripts' = scripts
            /\ last'.removed = 0
            /\ last'.added = 0
            /\ ~last'.reload]_vars

\* C6 witness: a batch naming one stylesheet was handled on the page with two
\* linked stylesheets, and the one it does not name carries a fresh t as well.
C6_Witness ==
    /\ Handled(BatchOf(<<Entry(TRUE, PathAppCss)>>))
    /\ Len(links) = 3
    /\ links[2].url.pathname = PathThemeCss
    /\ links[2].url.query = <<Param("t", 1)>>

InvalidFrame == Frame("invalid", NoType, NoUpdates)
UnknownFrames ==
    {Frame("object", "ping", NoUpdates), Frame("object", NoType, NoUpdates),
     Frame("number", NoType, NoUpdates)}

\* C7: a frame whose text is not valid JSON is dropped: the socket, the reconnect
\* flag, the reconnect timer and the first-connection flag stay as they were, no
\* stylesheet or script is touched and the page is not reloaded, in whatever state
\* the frame arrives.
C7_InvalidJsonDropped ==
    [][(last'.op = "message" /\ last'.frame = InvalidFrame)
         => /\ UNCHANGED <<sockets, socket, isReconnecting, reconnectTimer, timers,
                           isFirstConnection, links, scripts>>
            /\ ~last'.reload
            /\ last'.cssCalls = 0
            /\ last'.removed = 0
            /\ last'.added = 0]_vars

\* C7 witness: an invalid frame was handled while a reconnect was pending and
\* before any 'connected' message.
C7_Witness ==
    /\ Handled(InvalidFrame)
    /\ last.threw
    /\ isReconnecting
    /\ timers # {}
    /\ isFirstConnection

\* C8: the published handle's socket field is the current transport, the one
\* connect() created last, also after automatic and manual reconnects.
C8_HandleIsCurrent == handle.socket = socket

\* C9: a close event handled while a reconnect is already pending schedules no
\* timer and leaves the pending timer, the reconnect flag, the socket reference
\* and the first-connection flag as they were.
C9_CloseWhilePending ==
    [][(last'.op = "close" /\ isReconnecting)
         => UNCHANGED <<timers, timerCount, reconnectTimer, isReconnecting, socket,
                        isFirstConnection>>]_vars

\* C9 witness: a close was handled with the reconnect flag set and a timer pending.
C9_Witness ==
    /\ last.op = "close"
    /\ last.wasReconnecting
    /\ timers # {}

\* C10: a message whose type is none of 'connected', 'update', 'full-reload', or
\* that has no type, causes nothing: no reload, no stylesheet or script change,
\* and the first-connection flag, socket, reconnect flag and timer stay as they were.
C10_UnknownTypeIgnored ==
    [][(last'.op = "message" /\ last'.frame \in UnknownFrames)
         => /\ UNCHANGED <<sockets, socket, isReconnecting, reconnectTimer, timers,
                           isFirstConnection, links, scripts>>
            /\ ~last'.reload
            /\ ~last'.threw
            /\ last'.cssCalls = 0
            /\ last'.removed = 0
            /\ last'.added = 0]_vars

\* C10 witness: a message of unknown type was handled after the handshake, on a
\* page that would reload on a second 'connected' message.
C10_Witness ==
    /\ Handled(Frame("object", "ping", NoUpdates))
    /\ connectedSeen
    /\ ~isFirstConnection
    /\ ~last.reload

AnyLive == \E s \in Sockets : Live(s)

\* C11: the reconnect timer's callback never calls connect() while some transport
\* is still connecting or open, whatever events and manual reconnect() calls occur.
C11_TimerNeverOverlaps == [][last'.op = "timer" => ~AnyLive]_vars

\* A frame whose payload does not conform to the wire format
NonConforming(frame) ==
    \/ frame.json \in {"invalid", "null", "number"}
    \/ /\ frame.json = "object"
       /\ frame.type = "update"
       /\ \/ ~frame.updates.present
          \/ \E i \in 1..Len(frame.updates.items) : ~frame.updates.items[i].hasPath

\* C12: a frame that does not conform to the wire format is rejected as a whole:
\* no stylesheet is rewritten, no script removed or recreated, no reload, and the
\* connection state and the first-connection flag stay as they were.
C12_MalformedRejected ==
    [][(last'.op = "message" /\ NonConforming(last'.frame))
         => /\ UNCHANGED <<sockets, socket, isReconnecting, reconnectTimer, timers,
                           isFirstConnection, links, scripts>>
            /\ ~last'.reload
            /\ last'.cssCalls = 0
            /\ last'.removed = 0]_vars

\* C13: right after an open event is handled no reconnect timer is pending, the
\* recorded timer handle is empty and the reconnect flag is false, whichever
\* transport opened and whatever the state was before.
C13_OpenClearsReconnect ==
    last.op = "open" => (timers = {} /\ reconnectTimer = 0 /\ ~isReconnecting)

\* C13 witness: a transport other than the first opened while the flag was set and
\* a timer was pending.
C13_Witness ==
    /\ last.op = "open"
    /\ last.sock > 1
    /\ last.wasReconnecting
    /\ last.hadTimer
    /\ timers = {}

\* C14: an error event by itself changes nothing (no timer, no transport, flags,
\* timer handle and socket reference as before), and a reconnect timer is only
\* ever scheduled while handling a close event.
C14_ErrorChangesNothing ==
    [][/\ last'.op = "error"
            => UNCHANGED <<sockets, socket, reconnectTimer, isReconnecting,
                           isFirstConnection, timers, timerCount, links, scripts>>
       /\ (timerCount' # timerCount \/ ~(timers' \subseteq timers))
            => last'.op = "close"]_vars

\* C14 witness: the error of a transport the server refuses, handled before its
\* close, with no reconnect under way.
C14_Witness ==
    /\ last.op = "error"
    /\ sockets[last.sock] = "connecting"
    /\ ~serverUp
    /\ ~isReconnecting
    /\ timers = {}

IsOwn(script) == script.module /\ script.hasSrc /\ script.url.pathname # PathHmrJs
IsNotOwn(script) == ~IsOwn(script)
NotT(param) == param.k # "t"
IsT(param) == param.k = "t"

\* C15: a script-reload with at least one eligible module script removes exactly
\* the module scripts whose src does not contain '__hmr' and appends one new module
\* script per removed one, in the same order, at the same URL with t set; the
\* client's own script and module scripts without src stay in place, and the page
\* is not navigated.
C15_ScriptReload ==
    [][(/\ last'.op = "message"
        /\ WellFormedBatch(last'.frame)
        /\ HasEntryIn(last'.frame, ScriptPaths \cup MarkupPaths)
        /\ OwnScripts(scripts) # {})
         => LET kept  == SelectSeq(scripts, IsNotOwn)
                moved == SelectSeq(scripts, IsOwn)
            IN  /\ Len(scripts') = Len(scripts)
                /\ SubSeq(scripts', 1, Len(kept)) = kept
                /\ \A j \in 1..Len(moved) :
                     LET new == scripts'[Len(kept) + j] IN
                       /\ new.module
                       /\ new.hasSrc
                       /\ new.url.pathname = moved[j].url.pathname
                       /\ SelectSeq(new.url.query, NotT) = SelectSeq(moved[j].url.query, NotT)
                       /\ Len(SelectSeq(new.url.query, IsT)) = 1
                       /\ \A q \in 1..Len(new.url.query) :
                            new.url.query[q].k = "t" => new.url.query[q].v \in Times
                /\ last'.removed = Len(moved)
                /\ last'.added = Len(moved)
                /\ ~last'.reload]_vars

\* C15 witness: the page's two module scripts were recreated after the classic
\* script, the client's own script still first.
C15_Witness ==
    /\ last.op = "message"
    /\ last.removed = 2
    /\ Len(scripts) = 4
    /\ scripts[1] = HmrClientScript
    /\ scripts[2].url.pathname = PathOldJs
    /\ scripts[3].url = Url(PathMainTsx, <<Param("t", 1)>>)
    /\ scripts[4].url = Url(PathLibJs, <<Param("v", 1), Param("t", 1)>>)

\* C16: handling an inbound message, of any kind and content, never changes the
\* transport reference, the reconnect timer or the reconnect flag; the reference
\* changes only in connect(), the timer and the flag only in the open and close
\* handlers.
C16_MessagesLeaveConnection ==
    [][/\ last'.op = "message"
            => UNCHANGED <<sockets, socket, reconnectTimer, timers, timerCount,
                           isReconnecting>>
       /\ socket' # socket => last'.op \in {"reconnect", "timer"}
       /\ (reconnectTimer' # reconnectTimer \/ isReconnecting' # isReconnecting
             \/ timerCount' # timerCount)
            => last'.op \in {"open", "close"}]_vars

\* C16 witness: an update batch was handled while the reconnect flag was set and
\* a timer was pending.
C16_Witness ==
    /\ last.op = "message"
    /\ BatchFrame(last.frame)
    /\ last.cssCalls > 0
    /\ isReconnecting
    /\ reconnectTimer \in timers

StyleEntries(frame) ==
    {i \in 1..Len(frame.updates.items) : frame.updates.items[i].path \in StylePaths}

\* C17: for a batch with both a stylesheet entry and a script or markup entry both
\* remedies are applied while handling the one message, the stylesheet refresh
\* first (once per stylesheet entry) and the script-reload, or the full reload
\* when no module script is eligible, after it.
C17_StylesThenScripts ==
    [][(/\ last'.op = "message"
        /\ WellFormedBatch(last'.frame)
        /\ HasEntryIn(last'.frame, StylePaths)
        /\ HasEntryIn(last'.frame, ScriptPaths \cup MarkupPaths))
         => /\ last'.log =
                 [i \in 1..Cardinality(StyleEntries(last'.frame)) |-> "css"]
                 \o <<IF OwnScripts(scripts) # {} THEN "scripts" ELSE "reload">>
            /\ \A i \in 1..Len(links) :
                 links[i].hasHref =>
                    \E j \in 1..Len(links'[i].url.query) :
                        /\ links'[i].url.query[j].k = "t"
                        /\ links'[i].url.query[j].v \in Times]_vars

\* C17 witness: a batch naming a markup file and then a stylesheet refreshed the
\* stylesheets first and reloaded the scripts after.
C17_Witness ==
    /\ Handled(BatchOf(<<Entry(TRUE, PathIndexHtml), Entry(TRUE, PathAppCss)>>))
    /\ last.log = <<"css", "scripts">>
    /\ last.removed = 2

\* C18: when reconnect() is never called by the host page, at most one transport
\* is connecting or open at any time.
C18_OneLiveTransport == Cardinality({s \in Sockets : Live(s)}) <= 1

\* C18 witness: the timer made the third transport after the first two had closed.
C18_Witness ==
    /\ last.op = "timer"
    /\ sockets = <<"closed", "closed", "connecting">>

FullReloadFrame == Frame("object", "full-reload", NoUpdates)

Refreshed(url) == \E i \in 1..Len(url.query) : url.query[i].k = "t" /\ url.query[i].v \in Times
ModuleCount(scr) == Cardinality({i \in 1..Len(scr) : scr[i].module})

\* C20: cache-busting does not accumulate: after any sequence of update messages
\* the page has as many stylesheet links and module scripts as it started with,
\* and every refreshed stylesheet or script URL carries exactly one t parameter.
C20_NoAccumulation ==
    /\ \E d \in InitDoms :
        /\ Len(links) = Len(d.links)
        /\ Len(scripts) = Len(d.scripts)
        /\ ModuleCount(scripts) = ModuleCount(d.scripts)
    /\ \A i \in 1..Len(links) :
        Refreshed(links[i].url) => Len(SelectSeq(links[i].url.query, IsT)) = 1
    /\ \A i \in 1..Len(scripts) :
        Refreshed(scripts[i].url) => Len(SelectSeq(scripts[i].url.query, IsT)) = 1

\* C20 witness: the stylesheet that started with two t parameters and the script
\* that started with another parameter have both been refreshed.
C20_Witness ==
    /\ Len(links) = 3
    /\ links[2].url = Url(PathThemeCss, <<Param("t", 1)>>)
    /\ Len(scripts) = 4
    /\ Refreshed(scripts[4].url)
    /\ Refreshed(scripts[3].url)

====
